---- MODULE Spec2Model ----
(***************************************************************************)
(* Model of the GEO -> PubMed -> clinical-trial pipeline of src/app.py:     *)
(* paginated accession discovery, the thread-pool harvester, the detail     *)
(* extractor, the date-range filter and the "Run Search" handler with its   *)
(* session cache.                                                           *)
(*                                                                          *)
(* Text is modelled as sequences of one-character strings, so that the      *)
(* regular expressions and join/split of the source are computed, not       *)
(* assumed.  External services are nondeterministic choices over their      *)
(* possible answers (a page, an empty page, a raised exception).            *)
(***************************************************************************)
EXTENDS Integers, Sequences, FiniteSets, TLC

VARIABLES
    \* ---- fetch_all_geo_accessions (discovery loop) ----
    total,          \* the Count the search service reports for the keyword
    max_results,    \* page size argument
    retstart,       \* local: current offset
    total_count,    \* local: Count read by the last search call (-1 = None)
    geo_n,          \* local: number of record IDs on the current page
    all_accessions, \* local: running accession set
    calls,          \* history: the search calls issued, in order
    dpc,            \* position: "idle" | "search" | "fetch" | "returned" | "raised"
    \* ---- fetch_pubmed_ids_from_geo (thread-pool harvester) ----
    accession_list, \* argument: the accessions, in submission order
    task,           \* per accession: the future's state, result and fetch outcome
    results,        \* local: the records appended by the for loop
    reports,        \* the progress reports issued (progress bar + status text)
    completed,      \* history: the indices of the fetches in completion order
                    \* (kept for lists of at most MaxOrd accessions)
    hpc,            \* position: "idle" | "iterating" | "exit_ok" | "exit_exc" | "returned" | "raised"
    \* ---- get_publication_date (one call) ----
    cit,            \* the abstract page's <span class="cit">: present?, text
    pub_date,       \* the value returned
    ppc,            \* position: "idle" | "call" | "done"
    \* ---- process_pubmed_ids (detail extractor) ----
    metadata,       \* argument: the harvester's records
    pubmed_ids,     \* local: the sorted distinct identifiers
    ei,             \* local: number of identifiers processed so far
    erows,          \* local: the `results` list of line 142
    fetched,        \* history: what fetch_pubmed_html gave for each identifier
    nct_df,         \* the DataFrame returned (and later handed to filter_nct)
    epc,            \* position: "idle" | "loop" | "returned"
    \* ---- filter_nct ----
    df_before,      \* history: the argument frame as it was when the call began
    f_start,        \* argument: start_date
    f_end,          \* argument: end_date
    filtered_df,    \* the frame returned
    fpc,            \* position: "idle" | "call" | "done" | "raised"
    \* ---- the "Run Search" handler and st.session_state ----
    keyword,        \* widget value for the current run ("" = empty)
    start_date,     \* widget value
    end_date,       \* widget value
    ss_keys,        \* the keys present in st.session_state
    ss_accessions,  \* st.session_state.accessions
    ss_metadata,    \* st.session_state.metadata
                    \* (st.session_state.nct_df / .filtered_nct_df are the
                    \*  frames nct_df / filtered_df themselves)
    prov,           \* history: the inputs each cached entry was computed from
    stages,         \* history: the stages the current run has entered
    shown,          \* what the last completed run displayed as filtered table
    run_end,        \* how the last run ended: "none" | "error" | "aborted" | "shown"
    runs,           \* number of clicks so far
    pc              \* position of the handler

discVars == <<total, max_results, retstart, total_count, geo_n, all_accessions, calls, dpc>>

harvVars == <<accession_list, task, results, reports, completed, hpc>>

dateVars == <<cit, pub_date, ppc>>

detVars == <<metadata, pubmed_ids, ei, erows, fetched, nct_df, epc>>

filtVars == <<df_before, f_start, f_end, filtered_df, fpc>>

sessVars == <<keyword, start_date, end_date, ss_keys, ss_accessions, ss_metadata,
              prov, stages, shown, run_end, runs, pc>>

vars == <<discVars, harvVars, dateVars, detVars, filtVars, sessVars>>

\* ---------------------------------------------------------------------
\* Bounds
\* ---------------------------------------------------------------------
MaxTotal == 7
MaxPage == 3
MaxAcc == 6
MaxOrd == 3
MaxWords == 3
MaxMeta == 2
MaxRows == 2
MaxRuns == 2

\* ---------------------------------------------------------------------
\* Generic helpers
\* ---------------------------------------------------------------------
Min(a, b) == IF a <= b THEN a ELSE b

Range(s) == {s[i] : i \in DOMAIN s}

\* ceil(t / p) for t >= 0, p >= 1
Ceil(t, p) == (t + p - 1) \div p

\* ---------------------------------------------------------------------
\* Accession Discovery Engine
\* ---------------------------------------------------------------------
AccUniverse == {"GSE1", "GSE22"}

\* search_geo_accessions: the number of record IDs the service may put on the
\* page at offset `off`: a full or last page while off < total, nothing at or
\* past the reported count, and possibly nothing at all ("early empty page").
PageSizes(off) == IF off < total THEN {0, Min(max_results, total - off)} ELSE {0}

DiscIdle ==
    /\ total = 0 /\ max_results = 1 /\ retstart = 0 /\ total_count = -1
    /\ geo_n = 0 /\ all_accessions = {} /\ calls = <<>> /\ dpc = "idle"

\* entry of fetch_all_geo_accessions(keyword, max_results = p) against a
\* service that reports t records for the keyword
DiscEnter(t, p) ==
    /\ total' = t
    /\ max_results' = p
    /\ retstart' = 0
    /\ total_count' = -1
    /\ geo_n' = 0
    /\ all_accessions' = {}
    /\ calls' = <<>>
    /\ dpc' = "search"

\* faulty variant: the failure is swallowed and the pages found so far are returned
DiscSearchFailsSwallowed ==
    /\ dpc = "search"
    /\ calls' = Append(calls, [offset |-> retstart, result |-> "fail"])
    /\ dpc' = "returned"
    /\ UNCHANGED <<total, max_results, retstart, total_count, geo_n, all_accessions>>

\* line 43: the search call raises (Entrez.esearch / Entrez.read failure)
DiscSearchFails ==
    /\ dpc = "search"
    /\ calls' = Append(calls, [offset |-> retstart, result |-> "fail"])
    /\ dpc' = "raised"
    /\ UNCHANGED <<total, max_results, retstart, total_count, geo_n, all_accessions>>

\* lines 43-45: the search call answers; an empty page leaves the loop
DiscSearch ==
    /\ dpc = "search"
    /\ \E n \in PageSizes(retstart) :
        /\ geo_n' = n
        /\ total_count' = total
        /\ calls' = Append(calls, [offset |-> retstart,
                                   result |-> IF n = 0 THEN "empty" ELSE "ids"])
        /\ dpc' = IF n = 0 THEN "returned" ELSE "fetch"
    /\ UNCHANGED <<total, max_results, retstart, all_accessions>>

\* line 46: the record-fetch call raises (Entrez.efetch failure)
DiscFetchFails ==
    /\ dpc = "fetch"
    /\ calls' = [calls EXCEPT ![Len(calls)].result = "fetchfail"]
    /\ dpc' = "raised"
    /\ UNCHANGED <<total, max_results, retstart, total_count, geo_n, all_accessions>>

\* faulty variant: off-by-one exit test: one more page when the offset equals the count
DiscAfterPageStrict(off) == IF off > total_count THEN "returned" ELSE "search"

\* the loop's exit test of line 49
DiscAfterPage(off) == IF off >= total_count THEN "returned" ELSE "search"

\* lines 46-50: mine the page, advance the offset, test for the end
DiscFetch ==
    /\ dpc = "fetch"
    /\ \E found \in SUBSET AccUniverse :
        all_accessions' = all_accessions \cup found
    /\ retstart' = retstart + max_results
    /\ dpc' = DiscAfterPage(retstart + max_results)
    /\ UNCHANGED <<total, max_results, total_count, geo_n, calls>>

DiscDone == dpc \in {"returned", "raised"}

\* ---------------------------------------------------------------------
\* Text helpers (strings are sequences of one-character strings)
\* ---------------------------------------------------------------------
Digits == {"0", "1", "2", "3", "4", "5", "6", "7", "8", "9"}

IsDigit(c) == c \in Digits

\* the leading run of digits of s (what \d+ consumes at the start of s)
RECURSIVE DigitRun(_)
DigitRun(s) ==
    IF s # <<>> /\ IsDigit(Head(s)) THEN <<Head(s)>> \o DigitRun(Tail(s)) ELSE <<>>

\* ', '.join(ids)
RECURSIVE JoinIds(_)
JoinIds(ids) ==
    IF ids = <<>> THEN <<>>
    ELSE IF Len(ids) = 1 THEN ids[1]
    ELSE ids[1] \o <<",", " ">> \o JoinIds(Tail(ids))

\* ---------------------------------------------------------------------
\* Cross-Reference Harvester
\* ---------------------------------------------------------------------
MaxWorkers == 5

AccCodes == <<"GSE1", "GSE22", "GSE3", "GSE4", "GSE5", "GSE6", "GSE7", "GSE8">>

\* An accession detail page is the sequence of its <a href> targets; an href is
\* a sequence of tokens.
HrefPubmed7 == <<"pubmed", "/", "7">>
HrefPubmed12 == <<"pubmed", "/", "1", "2">>
HrefPubmedQuery == <<"pubmed", "?", "7">>
HrefOther == <<"geo", "/", "1">>

GeoPages == { <<HrefOther, HrefPubmed7>>,
              <<HrefPubmed12, HrefPubmedQuery, HrefPubmed7, HrefPubmed12>> }

\* the body of a non-2xx answer: an error page without PubMed links
ErrorPage == <<HrefOther>>

\* re.search(r'pubmed/(\d+)', href).group(1), or <<>> when there is no match
RECURSIVE PubmedMatch(_)
PubmedMatch(href) ==
    IF Len(href) < 3 THEN <<>>
    ELSE IF href[1] = "pubmed" /\ href[2] = "/" /\ IsDigit(href[3])
         THEN DigitRun(SubSeq(href, 3, Len(href)))
         ELSE PubmedMatch(Tail(href))

\* lines 62-67: the identifiers of the page's PubMed links, in page order
RECURSIVE ExtractPubmedIds(_)
ExtractPubmedIds(page) ==
    IF page = <<>> THEN <<>>
    ELSE LET href == Head(page)
             rest == ExtractPubmedIds(Tail(page))
         IN IF "pubmed" \in Range(href) /\ PubmedMatch(href) # <<>>
            THEN <<PubmedMatch(href)>> \o rest
            ELSE rest

\* what requests.get can do for one accession (line 60)
GeoOutcomes ==
    {[kind |-> "neterr", page |-> <<>>], [kind |-> "status", page |-> ErrorPage]}
    \cup {[kind |-> "ok", page |-> p] : p \in GeoPages}

\* fetch_pubmed_data: the future's state after the call; requests.get is not
\* guarded, so a network error ends the future with an exception
FetchPubmedData(o) ==
    IF o.kind = "neterr"
    THEN [st |-> "raised", res |-> <<>>, why |-> o.kind]
    ELSE [st |-> "done", res |-> JoinIds(ExtractPubmedIds(o.page)), why |-> o.kind]

QueuedTask == [st |-> "queued", res |-> <<>>, why |-> "none"]

Running == {i \in DOMAIN task : task[i].st = "running"}

Queued == {i \in DOMAIN task : task[i].st = "queued"}

Finished(i) == task[i].st \in {"done", "raised"}

HarvIdle ==
    /\ accession_list = <<>> /\ task = <<>> /\ results = <<>>
    /\ reports = <<>> /\ completed = <<>> /\ hpc = "idle"

\* lines 70-75: executor.map submits every accession before the loop starts
HarvEnter(accs) ==
    /\ accession_list' = accs
    /\ task' = [i \in DOMAIN accs |-> QueuedTask]
    /\ results' = <<>>
    /\ reports' = <<>>
    /\ completed' = <<>>
    /\ hpc' = "iterating"

\* faulty variant: one thread per call, no cap
WorkerAlwaysFree == TRUE

\* ThreadPoolExecutor(max_workers=5): a queued item starts only on a free worker
WorkerFree == Cardinality(Running) < MaxWorkers

\* a worker takes the oldest queued work item
HarvStart ==
    /\ hpc \in {"iterating", "exit_ok", "exit_exc"}
    /\ Queued # {}
    /\ WorkerFree
    /\ LET i == CHOOSE j \in Queued : \A k \in Queued : j <= k
       IN task' = [task EXCEPT ![i].st = "running"]
    /\ UNCHANGED <<accession_list, results, reports, completed, hpc>>

\* a running fetch_pubmed_data call ends
HarvFinish ==
    /\ \E i \in Running : \E o \in GeoOutcomes :
        /\ task' = [task EXCEPT ![i] = FetchPubmedData(o)]
        /\ completed' = IF Len(accession_list) <= MaxOrd
                        THEN Append(completed, i) ELSE completed
    /\ UNCHANGED <<accession_list, results, reports, hpc>>

\* faulty variant: results handed out as they complete, as_completed style
YieldAsCompleted ==
    {i \in DOMAIN task : Finished(i) /\ \A k \in DOMAIN results : results[k].idx # i}

\* the futures whose result the map iterator may hand out next: executor.map
\* yields in submission order, so it is the first one not handed out yet
YieldCandidates == {Len(results) + 1} \cap DOMAIN task

\* lines 75-79: one iteration of the for loop
HarvYield ==
    /\ hpc = "iterating"
    /\ \E i \in YieldCandidates :
        /\ task[i].st = "done"
        /\ results' = Append(results, [idx |-> i, accession |-> accession_list[i],
                                       Pubmed_ID |-> task[i].res])
        /\ reports' = Append(reports, [i |-> Len(results) + 1,
                                       n |-> Len(accession_list),
                                       accession |-> accession_list[i]])
    /\ UNCHANGED <<accession_list, task, completed, hpc>>

\* the iterator re-raises a fetch's exception; its finally clause cancels the
\* futures that have not started
HarvYieldRaises ==
    /\ hpc = "iterating"
    /\ \E i \in YieldCandidates : task[i].st = "raised"
    /\ task' = [i \in DOMAIN task |->
                   IF task[i].st = "queued" THEN [task[i] EXCEPT !.st = "cancelled"]
                   ELSE task[i]]
    /\ hpc' = "exit_exc"
    /\ UNCHANGED <<accession_list, results, reports, completed>>

\* the for loop ends when the iterator is exhausted
HarvLoopEnds ==
    /\ hpc = "iterating"
    /\ Len(results) = Len(accession_list)
    /\ hpc' = "exit_ok"
    /\ UNCHANGED <<accession_list, task, results, reports, completed>>

\* leaving the with block calls shutdown(wait=True): it joins the workers
PoolJoined == Running = {} /\ Queued = {}

\* lines 81-83, or the exception leaving the function
HarvExit ==
    /\ hpc \in {"exit_ok", "exit_exc"}
    /\ PoolJoined
    /\ hpc' = IF hpc = "exit_ok" THEN "returned" ELSE "raised"
    /\ UNCHANGED <<accession_list, task, results, reports, completed>>

\* ---------------------------------------------------------------------
\* Publication date (get_publication_date)
\* ---------------------------------------------------------------------
Letters == {"J", "a", "n", "F", "e", "b", "o", "d", "t", "h", "r", "M", "y",
            "N", "C", "T", "u", "x"}

\* \w
IsWordChar(c) == c \in Digits \cup Letters \cup {"_"}

DigitVal(c) ==
    CASE c = "0" -> 0 [] c = "1" -> 1 [] c = "2" -> 2 [] c = "3" -> 3 [] c = "4" -> 4
      [] c = "5" -> 5 [] c = "6" -> 6 [] c = "7" -> 7 [] c = "8" -> 8 [] c = "9" -> 9

RECURSIVE NumVal(_)
NumVal(ds) == IF ds = <<>> THEN 0 ELSE 10 * NumVal(SubSeq(ds, 1, Len(ds) - 1)) + DigitVal(ds[Len(ds)])

AllDigits(s, from, to) == \A k \in from..to : IsDigit(s[k])

NoneDate == [k |-> "None"]
NaT == [k |-> "NaT"]
Date(y, m, d) == [k |-> "date", y |-> y, m |-> m, d |-> d]

\* re.search(r'\d{4} \w{3} \d{1,2}', text) matching at position i
YmdAt(s, i) ==
    /\ i + 9 <= Len(s)
    /\ AllDigits(s, i, i + 3)
    /\ s[i + 4] = " "
    /\ \A k \in (i + 5)..(i + 7) : IsWordChar(s[k])
    /\ s[i + 8] = " "
    /\ IsDigit(s[i + 9])

\* re.search(r'\d{4}', text) matching at position i
YearAt(s, i) == i + 3 <= Len(s) /\ AllDigits(s, i, i + 3)

\* line 99: the matched text (<<>> = no match); the full pattern is tried
\* first, and \d{1,2} is greedy
CitMatch(s) ==
    LET ymd == {i \in DOMAIN s : YmdAt(s, i)}
        yr == {i \in DOMAIN s : YearAt(s, i)}
    IN IF ymd # {}
       THEN LET i == CHOOSE j \in ymd : \A k \in ymd : j <= k
                last == IF i + 10 <= Len(s) /\ IsDigit(s[i + 10]) THEN i + 10 ELSE i + 9
            IN SubSeq(s, i, last)
       ELSE IF yr # {}
       THEN LET i == CHOOSE j \in yr : \A k \in yr : j <= k
            IN SubSeq(s, i, i + 3)
       ELSE <<>>

\* %b: the month abbreviations of the C locale, matched ignoring case
Lower(c) ==
    CASE c = "J" -> "j" [] c = "F" -> "f" [] c = "M" -> "m" [] c = "A" -> "a"
      [] c = "S" -> "s" [] c = "O" -> "o" [] c = "N" -> "n" [] c = "D" -> "d"
      [] OTHER -> c

MonthOf(w) ==
    LET l == <<Lower(w[1]), Lower(w[2]), Lower(w[3])>>
    IN CASE l = <<"j", "a", "n">> -> 1 [] l = <<"f", "e", "b">> -> 2
         [] l = <<"m", "a", "r">> -> 3 [] l = <<"a", "p", "r">> -> 4
         [] l = <<"m", "a", "y">> -> 5 [] l = <<"j", "u", "n">> -> 6
         [] l = <<"j", "u", "l">> -> 7 [] l = <<"a", "u", "g">> -> 8
         [] l = <<"s", "e", "p">> -> 9 [] l = <<"o", "c", "t">> -> 10
         [] l = <<"n", "o", "v">> -> 11 [] l = <<"d", "e", "c">> -> 12
         [] OTHER -> 0

IsLeap(y) == (y % 4 = 0 /\ y % 100 # 0) \/ y % 400 = 0

DaysIn(y, m) ==
    IF m = 2 THEN (IF IsLeap(y) THEN 29 ELSE 28)
    ELSE IF m \in {4, 6, 9, 11} THEN 30 ELSE 31

\* datetime.strptime(t, "%Y %b %d"): NoneDate stands for ValueError.  %d takes
\* 1..31 written with one or two digits and must use up the text.
StrptimeYbd(t) ==
    IF ~(Len(t) \in {10, 11} /\ AllDigits(t, 1, 4) /\ t[5] = " " /\ t[9] = " "
         /\ AllDigits(t, 10, Len(t)))
    THEN NoneDate
    ELSE LET y == NumVal(SubSeq(t, 1, 4))
             m == MonthOf(SubSeq(t, 6, 8))
             d == NumVal(SubSeq(t, 10, Len(t)))
         IN IF y >= 1 /\ m >= 1 /\ d >= 1 /\ d <= DaysIn(y, m)
               /\ ~(Len(t) = 10 /\ t[10] = "0")
            THEN Date(y, m, d) ELSE NoneDate

\* datetime.strptime(t, "%Y"): exactly four digits, year >= 1
StrptimeY(t) ==
    IF Len(t) = 4 /\ AllDigits(t, 1, 4) /\ NumVal(t) >= 1
    THEN Date(NumVal(t), 1, 1) ELSE NoneDate

\* lines 97-108 (with the .date() of line 171): c = [present, text]
GetPublicationDate(c) ==
    IF ~c.present THEN NoneDate
    ELSE LET m == CitMatch(c.text)
         IN IF m = <<>> THEN NoneDate
            ELSE IF StrptimeYbd(m) # NoneDate THEN StrptimeYbd(m)
            ELSE StrptimeY(m)

DateIdle == cit = [present |-> FALSE, text |-> <<>>] /\ pub_date = NoneDate /\ ppc = "idle"

DateCall ==
    /\ ppc = "call"
    /\ pub_date' = GetPublicationDate(cit)
    /\ ppc' = "done"
    /\ UNCHANGED cit

\* citation texts: up to MaxWords words separated by single spaces
CitWords == { <<"2", "0", "2", "1">>, <<"2", "0", "1", "9">>, <<"J", "a", "n">>,
              <<"F", "e", "b">>, <<"F", "o", "o">>, <<"5">>, <<"3", "0">>,
              <<"n", "o">>, <<"d", "a", "t", "e">>, <<"h", "e", "r", "e">> }

RECURSIVE JoinWords(_)
JoinWords(ws) ==
    IF ws = <<>> THEN <<>>
    ELSE IF Len(ws) = 1 THEN ws[1]
    ELSE ws[1] \o <<" ">> \o JoinWords(Tail(ws))

CitTexts == UNION {{JoinWords(ws) : ws \in [1..n -> CitWords]} : n \in 0..MaxWords}

\* ---------------------------------------------------------------------
\* Trial identifier (search_nct_in_abstract)
\* ---------------------------------------------------------------------
\* re.search(r'NCT\d{8}', text): the matched text, <<>> when there is none
NctAt(s, i) ==
    /\ i + 10 <= Len(s)
    /\ s[i] = "N" /\ s[i + 1] = "C" /\ s[i + 2] = "T"
    /\ AllDigits(s, i + 3, i + 10)

FindNct(s) ==
    LET at == {i \in DOMAIN s : NctAt(s, i)}
    IN IF at = {} THEN <<>>
       ELSE LET i == CHOOSE j \in at : \A k \in at : j <= k IN SubSeq(s, i, i + 10)

\* the first match among the texts of a list of regions, in order
RECURSIVE FirstNct(_)
FirstNct(texts) ==
    IF texts = <<>> THEN <<>>
    ELSE IF FindNct(Head(texts)) # <<>> THEN FindNct(Head(texts))
    ELSE FirstNct(Tail(texts))

\* soup.get_text(separator=' '): every text of the page, separated by spaces
FullText(page) ==
    JoinWords((IF page.cit.present THEN <<page.cit.text>> ELSE <<>>)
              \o page.abstract \o page.trialreg \o <<page.other>>)

\* lines 110-132: abstract regions, then trial-registration regions, then the
\* whole page
SearchNctInAbstract(page) ==
    IF FirstNct(page.abstract) # <<>> THEN FirstNct(page.abstract)
    ELSE IF FirstNct(page.trialreg) # <<>> THEN FirstNct(page.trialreg)
    ELSE FindNct(FullText(page))

Nct8 == <<"N", "C", "T", "1", "2", "3", "4", "5", "6", "7", "8">>
Nct8b == <<"N", "C", "T", "0", "0", "0", "0", "0", "0", "0", "1">>
NctNotFound == <<"N", "C", "T", " ", "N", "o", "t", " ", "F", "o", "u", "n", "d">>

AbstractPages == {
    [abstract |-> <<<<"x", " ">> \o Nct8>>, trialreg |-> <<Nct8b>>, other |-> <<"x">>,
     cit |-> [present |-> TRUE, text |-> <<"2", "0", "2", "1", " ", "J", "a", "n", " ", "5">>]],
    [abstract |-> <<<<"x">>>>, trialreg |-> <<Nct8b \o <<"9">>>>, other |-> <<"x">>,
     cit |-> [present |-> TRUE, text |-> <<"2", "0", "1", "9">>]],
    [abstract |-> <<>>, trialreg |-> <<>>, other |-> <<"N", "C", "T", "1", "2", "3">>,
     cit |-> [present |-> FALSE, text |-> <<>>]] }

\* fetch_pubmed_html: None on any exception or non-2xx status, else the body
\* (which may be empty)
HtmlOutcomes ==
    {[kind |-> "None", page |-> <<>>], [kind |-> "empty", page |-> <<>>]}
    \cup {[kind |-> "page", page |-> p] : p \in AbstractPages}

\* `if html:` of line 167
Truthy(html) == html.kind = "page"

\* ---------------------------------------------------------------------
\* Detail Extractor (process_pubmed_ids)
\* ---------------------------------------------------------------------
\* str.split(',')
RECURSIVE SplitComma(_)
SplitComma(s) ==
    LET at == {i \in DOMAIN s : s[i] = ","}
    IN IF at = {} THEN <<s>>
       ELSE LET i == CHOOSE j \in at : \A k \in at : j <= k
            IN <<SubSeq(s, 1, i - 1)>> \o SplitComma(SubSeq(s, i + 1, Len(s)))

\* str.strip()
RECURSIVE Strip(_)
Strip(s) ==
    IF s = <<>> THEN s
    ELSE IF Head(s) = " " THEN Strip(Tail(s))
    ELSE IF s[Len(s)] = " " THEN Strip(SubSeq(s, 1, Len(s) - 1))
    ELSE s

\* lines 135-139
CollectIds(meta) ==
    UNION {{Strip(piece) : piece \in Range(SplitComma(meta[k].Pubmed_ID))} :
           k \in {j \in DOMAIN meta : meta[j].Pubmed_ID # <<>>}}

CharOrd(c) == IF c = " " THEN 32 ELSE IF c = "," THEN 44 ELSE 48 + DigitVal(c)

\* Python's string order
RECURSIVE StrLess(_, _)
StrLess(a, b) ==
    IF b = <<>> THEN FALSE
    ELSE IF a = <<>> THEN TRUE
    ELSE IF Head(a) # Head(b) THEN CharOrd(Head(a)) < CharOrd(Head(b))
    ELSE StrLess(Tail(a), Tail(b))

\* sorted(list(pubmed_ids)) of line 141
RECURSIVE SortedIds(_)
SortedIds(S) ==
    IF S = {} THEN <<>>
    ELSE LET m == CHOOSE x \in S : \A y \in S \ {x} : StrLess(x, y)
         IN <<m>> \o SortedIds(S \ {m})

\* faulty variant: an identifier whose page cannot be fetched is skipped
DetailRowsSkippingFailures(pid, html) ==
    IF Truthy(html)
    THEN LET nct == SearchNctInAbstract(html.page)
         IN <<[Pubmed_ID |-> pid,
               NCT_Number |-> IF nct # <<>> THEN nct ELSE NctNotFound,
               Publication_Date |-> GetPublicationDate(html.page.cit)]>>
    ELSE <<>>

\* lines 166-178: what one iteration appends to `results`
DetailRows(pid, html) ==
    IF Truthy(html)
    THEN LET nct == SearchNctInAbstract(html.page)
         IN <<[Pubmed_ID |-> pid,
               NCT_Number |-> IF nct # <<>> THEN nct ELSE NctNotFound,
               Publication_Date |-> GetPublicationDate(html.page.cit)]>>
    ELSE <<[Pubmed_ID |-> pid, NCT_Number |-> NctNotFound, Publication_Date |-> NoneDate]>>

\* lines 184-185: pd.DataFrame(results) has the dict keys as columns, and none
\* for an empty list; the scalar column is then added to every row
MakeFrame(rows, ids) ==
    [columns |-> (IF rows = <<>> THEN {}
                  ELSE {"Pubmed_ID", "NCT Number", "Publication_Date"})
                 \cup {"All Pubmed_IDs"},
     rows |-> [k \in DOMAIN rows |->
                  [Pubmed_ID |-> rows[k].Pubmed_ID,
                   NCT_Number |-> rows[k].NCT_Number,
                   Publication_Date |-> rows[k].Publication_Date,
                   All_Pubmed_IDs |-> JoinIds(ids)]]]

NoFrame == [columns |-> {}, rows |-> <<>>]

DetIdle ==
    /\ metadata = <<>> /\ pubmed_ids = <<>> /\ ei = 0 /\ erows = <<>>
    /\ fetched = <<>> /\ nct_df = NoFrame /\ epc = "idle"

\* lines 135-147
ProcEnter(meta) ==
    /\ metadata' = meta
    /\ pubmed_ids' = SortedIds(CollectIds(meta))
    /\ ei' = 0
    /\ erows' = <<>>
    /\ fetched' = <<>>
    /\ nct_df' = NoFrame
    /\ epc' = "loop"

\* lines 148-179: one iteration of the loop
ProcStep ==
    /\ epc = "loop"
    /\ ei < Len(pubmed_ids)
    /\ \E html \in HtmlOutcomes :
        /\ erows' = erows \o DetailRows(pubmed_ids[ei + 1], html)
        /\ fetched' = Append(fetched, html.kind)
    /\ ei' = ei + 1
    /\ UNCHANGED <<metadata, pubmed_ids, nct_df, epc>>

\* lines 181-186
ProcReturn ==
    /\ epc = "loop"
    /\ ei = Len(pubmed_ids)
    /\ nct_df' = MakeFrame(erows, pubmed_ids)
    /\ epc' = "returned"
    /\ UNCHANGED <<metadata, pubmed_ids, ei, erows, fetched>>

\* ---------------------------------------------------------------------
\* Date-Range Filter (filter_nct)
\* ---------------------------------------------------------------------
DateLE(a, b) ==
    \/ a.y < b.y
    \/ a.y = b.y /\ a.m < b.m
    \/ a.y = b.y /\ a.m = b.m /\ a.d <= b.d

\* str.match(r'^NCT\d+$'): the prefix and then one or more digits to the end
MatchesNctPattern(s) ==
    /\ Len(s) >= 4
    /\ s[1] = "N" /\ s[2] = "C" /\ s[3] = "T"
    /\ AllDigits(s, 4, Len(s))

\* line 189: pd.to_datetime(..., errors='coerce').dt.date turns None into NaT
CoerceDate(d) == IF d.k = "date" THEN d ELSE NaT

CoerceFrame(df) ==
    [df EXCEPT !.rows = [k \in DOMAIN df.rows |->
        [df.rows[k] EXCEPT !.Publication_Date = CoerceDate(df.rows[k].Publication_Date)]]]

\* lines 192-195: the row mask
KeepRow(r, start, end) ==
    /\ r.Publication_Date.k = "date"
    /\ DateLE(start, r.Publication_Date)
    /\ DateLE(r.Publication_Date, end)
    /\ MatchesNctPattern(r.NCT_Number)

\* line 195: df.loc[mask] of the frame as rewritten by line 189
FilteredFrame(df, start, end) ==
    LET Keep(r) == KeepRow(r, start, end)
    IN [columns |-> df.columns, rows |-> SelectSeq(CoerceFrame(df).rows, Keep)]

FiltIdle ==
    /\ df_before = NoFrame /\ f_start = NoneDate /\ f_end = NoneDate
    /\ filtered_df = NoFrame /\ fpc = "idle"

\* entry of filter_nct(df, start_date, end_date), df being nct_df
FilterEnter(start, end) ==
    /\ df_before' = nct_df
    /\ f_start' = start
    /\ f_end' = end
    /\ filtered_df' = NoFrame
    /\ fpc' = "call"

\* line 189 on a frame without the column: KeyError
FilterRaises ==
    /\ fpc = "call"
    /\ "Publication_Date" \notin nct_df.columns
    /\ fpc' = "raised"
    /\ UNCHANGED <<df_before, f_start, f_end, filtered_df, nct_df>>

\* lines 189-197: the column is rewritten in place, then the rows are selected
FilterCall ==
    /\ fpc = "call"
    /\ "Publication_Date" \in nct_df.columns
    /\ nct_df' = CoerceFrame(nct_df)
    /\ filtered_df' = FilteredFrame(nct_df, f_start, f_end)
    /\ fpc' = "done"
    /\ UNCHANGED <<df_before, f_start, f_end>>

\* ---------------------------------------------------------------------
\* The "Run Search" handler (lines 205-238) and its session cache
\* ---------------------------------------------------------------------
DefaultMaxResults == 100

NoProv == [acc |-> "", meta |-> "", nct |-> "", filt |-> [kw |-> "", start |-> NoneDate, end |-> NoneDate]]

NoShown == [rows |-> <<>>, computed_for |-> [kw |-> "", start |-> NoneDate, end |-> NoneDate]]

SessIdle ==
    /\ keyword = "" /\ start_date = NoneDate /\ end_date = NoneDate
    /\ ss_keys = {} /\ ss_accessions = <<>> /\ ss_metadata = <<>>
    /\ prov = NoProv /\ stages = {} /\ shown = NoShown /\ run_end = "none"
    /\ runs = 0 /\ pc = "idle"

\* list(all_accessions): a set's iteration order is arbitrary
ListsOf(S) == {l \in [1..Cardinality(S) -> S] : Range(l) = S}

\* the locals of the stage functions are dead once a script run has ended
LocalsReset ==
    /\ total' = 0 /\ max_results' = 1 /\ retstart' = 0 /\ total_count' = -1
    /\ geo_n' = 0 /\ all_accessions' = {} /\ calls' = <<>> /\ dpc' = "idle"
    /\ accession_list' = <<>> /\ task' = <<>> /\ results' = <<>>
    /\ reports' = <<>> /\ completed' = <<>> /\ hpc' = "idle"
    /\ metadata' = <<>> /\ pubmed_ids' = <<>> /\ ei' = 0 /\ erows' = <<>>
    /\ fetched' = <<>> /\ epc' = "idle"
    /\ df_before' = NoFrame /\ f_start' = NoneDate /\ f_end' = NoneDate /\ fpc' = "idle"

\* lines 200-209: the click reruns the script with the widgets' values; an
\* empty keyword only shows an error
SessClick(kw, sd, ed) ==
    /\ pc = "idle"
    /\ runs < MaxRuns
    /\ runs' = runs + 1
    /\ keyword' = kw /\ start_date' = sd /\ end_date' = ed
    /\ stages' = {}
    /\ IF kw = "" THEN pc' = "idle" /\ run_end' = "error"
                  ELSE pc' = "s1" /\ run_end' = "none"
    /\ LocalsReset
    /\ UNCHANGED <<ss_keys, ss_accessions, ss_metadata, prov, shown, nct_df, filtered_df,
                   cit, pub_date, ppc>>

\* lines 212-214: discovery runs only when no accessions are cached
SessStage1 ==
    /\ pc = "s1"
    /\ IF "accessions" \notin ss_keys
       THEN /\ \E t \in {0, 150} : DiscEnter(t, DefaultMaxResults)
            /\ stages' = stages \cup {"discover"}
            /\ pc' = "discover"
       ELSE /\ pc' = "s2"
            /\ UNCHANGED <<discVars, stages>>
    /\ UNCHANGED <<harvVars, dateVars, detVars, filtVars, keyword, start_date, end_date,
                   ss_keys, ss_accessions, ss_metadata, prov, shown, run_end, runs>>

\* line 214: the returned list is stored
SessStage1Done ==
    /\ pc = "discover" /\ dpc = "returned"
    /\ \E l \in ListsOf(all_accessions) : ss_accessions' = l
    /\ ss_keys' = ss_keys \cup {"accessions"}
    /\ prov' = [prov EXCEPT !.acc = keyword]
    /\ pc' = "s2"
    /\ UNCHANGED <<discVars, harvVars, dateVars, detVars, filtVars, keyword, start_date,
                   end_date, ss_metadata, stages, shown, run_end, runs>>

\* an exception of a stage is not caught anywhere: the script run ends there
SessAbort ==
    /\ \/ pc = "discover" /\ dpc = "raised"
       \/ pc = "harvest" /\ hpc = "raised"
       \/ pc = "filter" /\ fpc = "raised"
    /\ pc' = "idle"
    /\ run_end' = "aborted"
    /\ UNCHANGED <<discVars, harvVars, dateVars, detVars, filtVars, keyword, start_date,
                   end_date, ss_keys, ss_accessions, ss_metadata, prov, stages, shown, runs>>

\* lines 220-222
SessStage2 ==
    /\ pc = "s2"
    /\ IF "metadata" \notin ss_keys
       THEN /\ HarvEnter(ss_accessions)
            /\ stages' = stages \cup {"harvest"}
            /\ pc' = "harvest"
       ELSE /\ pc' = "s3"
            /\ UNCHANGED <<harvVars, stages>>
    /\ UNCHANGED <<discVars, dateVars, detVars, filtVars, keyword, start_date, end_date,
                   ss_keys, ss_accessions, ss_metadata, prov, shown, run_end, runs>>

SessStage2Done ==
    /\ pc = "harvest" /\ hpc = "returned"
    /\ ss_metadata' = results
    /\ ss_keys' = ss_keys \cup {"metadata"}
    /\ prov' = [prov EXCEPT !.meta = prov.acc]
    /\ pc' = "s3"
    /\ UNCHANGED <<discVars, harvVars, dateVars, detVars, filtVars, keyword, start_date,
                   end_date, ss_accessions, stages, shown, run_end, runs>>

\* lines 227-229
SessStage3 ==
    /\ pc = "s3"
    /\ IF "nct_df" \notin ss_keys
       THEN /\ ProcEnter(ss_metadata)
            /\ stages' = stages \cup {"extract"}
            /\ pc' = "extract"
       ELSE /\ pc' = "s4"
            /\ UNCHANGED <<detVars, stages>>
    /\ UNCHANGED <<discVars, harvVars, dateVars, filtVars, keyword, start_date, end_date,
                   ss_keys, ss_accessions, ss_metadata, prov, shown, run_end, runs>>

SessStage3Done ==
    /\ pc = "extract" /\ epc = "returned"
    /\ ss_keys' = ss_keys \cup {"nct_df"}
    /\ prov' = [prov EXCEPT !.nct = prov.meta]
    /\ pc' = "s4"
    /\ UNCHANGED <<discVars, harvVars, dateVars, detVars, filtVars, keyword, start_date,
                   end_date, ss_accessions, ss_metadata, stages, shown, run_end, runs>>

\* lines 233-235
SessStage4 ==
    /\ pc = "s4"
    /\ IF "filtered_nct_df" \notin ss_keys
       THEN /\ FilterEnter(start_date, end_date)
            /\ stages' = stages \cup {"filter"}
            /\ pc' = "filter"
       ELSE /\ pc' = "show"
            /\ UNCHANGED <<filtVars, stages>>
    /\ UNCHANGED <<discVars, harvVars, dateVars, detVars, keyword, start_date, end_date,
                   ss_keys, ss_accessions, ss_metadata, prov, shown, run_end, runs>>

SessStage4Done ==
    /\ pc = "filter" /\ fpc = "done"
    /\ ss_keys' = ss_keys \cup {"filtered_nct_df"}
    /\ prov' = [prov EXCEPT !.filt = [kw |-> prov.nct, start |-> f_start, end |-> f_end]]
    /\ pc' = "show"
    /\ UNCHANGED <<discVars, harvVars, dateVars, detVars, filtVars, keyword, start_date,
                   end_date, ss_accessions, ss_metadata, stages, shown, run_end, runs>>

\* lines 236-238: the cached filtered frame is displayed
SessShow ==
    /\ pc = "show"
    /\ shown' = [rows |-> filtered_df.rows, computed_for |-> prov.filt]
    /\ run_end' = "shown"
    /\ pc' = "idle"
    /\ UNCHANGED <<discVars, harvVars, dateVars, detVars, filtVars, keyword, start_date,
                   end_date, ss_keys, ss_accessions, ss_metadata, prov, stages, runs>>

\* ---- specification: one call of fetch_pubmed_ids_from_geo ----
InitHarv ==
    /\ DiscIdle /\ DateIdle /\ DetIdle /\ FiltIdle /\ SessIdle
    /\ \E n \in 0..MaxAcc : accession_list = SubSeq(AccCodes, 1, n)
    /\ task = [i \in DOMAIN accession_list |-> QueuedTask]
    /\ results = <<>> /\ reports = <<>> /\ completed = <<>> /\ hpc = "iterating"

OnlyHarv == UNCHANGED <<discVars, dateVars, detVars, filtVars, sessVars>>

NextHarv ==
    \/ HarvStart /\ OnlyHarv
    \/ HarvFinish /\ OnlyHarv
    \/ HarvYield /\ OnlyHarv
    \/ HarvYieldRaises /\ OnlyHarv
    \/ HarvLoopEnds /\ OnlyHarv
    \/ HarvExit /\ OnlyHarv

SpecHarv == InitHarv /\ [][NextHarv]_vars

\* ---- claims about the harvester ----
FetchFailed(i) == task[i].why \in {"status", "neterr"}

\* C1: whatever the per-accession fetch outcomes (success, network error or
\* timeout, non-2xx status), the harvester returns without raising, its result
\* holds exactly one record per input accession, and every accession whose
\* fetch failed has an empty identifier list.
C1_SoftFailure ==
    /\ hpc \notin {"exit_exc", "raised"}
    /\ hpc = "returned" =>
        /\ Len(results) = Len(accession_list)
        /\ \A i \in DOMAIN accession_list :
            /\ results[i].accession = accession_list[i]
            /\ FetchFailed(i) => results[i].Pubmed_ID = <<>>

\* C7: at most 5 accession fetches are in flight at any moment, and the
\* harvester returns only after every submitted fetch has completed.
C7_BoundedPool ==
    /\ Cardinality(Running) <= 5
    /\ hpc = "returned" => \A i \in DOMAIN task : task[i].st = "done"

\* the pool is saturated and a sixth accession waits in the queue
C7_Witness == Cardinality(Running) = 5 /\ Queued # {} /\ hpc = "iterating"

\* C8 as stated: progress is reported in completion order, the k-th report
\* naming the k-th fetch to complete, without waiting for earlier-submitted
\* fetches that are still running.
C8_CompletionOrder ==
    Len(accession_list) <= MaxOrd =>
        \A k \in DOMAIN reports : reports[k].accession = accession_list[completed[k]]

\* C8 amended: progress is reported in submission order; the k-th report has
\* the value k/total, names the k-th submitted accession and is issued only
\* once the fetches of accessions 1..k have all completed.
C8_SubmissionOrder ==
    \A k \in DOMAIN reports :
        /\ reports[k] = [i |-> k, n |-> Len(accession_list),
                         accession |-> accession_list[k]]
        /\ \A j \in 1..k : task[j].st = "done"

\* a later-submitted fetch completed first, and the first report still names
\* the first accession
C8_Witness ==
    /\ Len(reports) >= 1
    /\ completed # <<>> /\ completed[1] # 1

\* ---- specification: one call of fetch_all_geo_accessions ----
InitDisc ==
    /\ HarvIdle /\ DateIdle /\ DetIdle /\ FiltIdle /\ SessIdle
    /\ total \in 0..MaxTotal
    /\ max_results \in 1..MaxPage
    /\ retstart = 0 /\ total_count = -1 /\ geo_n = 0
    /\ all_accessions = {} /\ calls = <<>> /\ dpc = "search"

OnlyDisc == UNCHANGED <<harvVars, dateVars, detVars, filtVars, sessVars>>

NextDisc ==
    \/ DiscSearchFails /\ OnlyDisc
    \/ DiscSearch /\ OnlyDisc
    \/ DiscFetchFails /\ OnlyDisc
    \/ DiscFetch /\ OnlyDisc

SpecDisc == InitDisc /\ [][NextDisc]_vars

\* the loop is straight-line sequential code: it keeps taking steps
SpecDiscFair == SpecDisc /\ WF_vars(NextDisc)

\* ---- claims about the discovery loop ----
CallsWithIds == {i \in DOMAIN calls : calls[i].result = "ids"}

AllPagesHadIds == \A i \in DOMAIN calls : calls[i].result = "ids"

\* the search calls go to offsets 0, P, 2P, ...
C2_Offsets == \A i \in DOMAIN calls : calls[i].offset = (i - 1) * max_results

\* after a non-empty page no search call is issued at an offset >= T
C2_NoCallPastTotal == \A i \in DOMAIN calls : i > 1 => calls[i].offset < total

\* page counts of a call that returned
C2_AtReturn ==
    dpc = "returned" =>
        /\ AllPagesHadIds => Len(calls) = Ceil(total, max_results)
        /\ ~AllPagesHadIds =>
            /\ calls[Len(calls)].result = "empty"
            /\ CallsWithIds = 1..(Len(calls) - 1)
            /\ total >= 1 => /\ Len(calls) <= Ceil(total, max_results)
                             /\ Cardinality(CallsWithIds) < Ceil(total, max_results)
        /\ total = 0 => (all_accessions = {} /\ Len(calls) = 1)

C2_Safe == C2_Offsets /\ C2_NoCallPastTotal /\ C2_AtReturn

\* C2: for every total count T >= 0 and page size P >= 1 the discovery loop
\* terminates; its search calls go to offsets 0, P, 2P, ...; it fetches exactly
\* ceil(T/P) pages when every page has record IDs and fewer when a page comes
\* back empty (the loop stops at that page); no search call is issued at an
\* offset >= T after a non-empty page; T = 0 yields the empty accession set.
C2_Discovery == []C2_Safe /\ <>DiscDone

\* the 25/10 scenario in small: three pages, the last one partial, no fourth call
C2_Witness ==
    /\ dpc = "returned" /\ AllPagesHadIds /\ Len(calls) = 3
    /\ total = 2 * max_results + 1

\* ---- specification: one call of get_publication_date ----
InitDate ==
    /\ DiscIdle /\ HarvIdle /\ DetIdle /\ FiltIdle /\ SessIdle
    /\ cit \in {[present |-> FALSE, text |-> <<>>]}
               \cup {[present |-> TRUE, text |-> t] : t \in CitTexts}
    /\ pub_date = NoneDate /\ ppc = "call"

OnlyDate == UNCHANGED <<discVars, harvVars, detVars, filtVars, sessVars>>

NextDate == DateCall /\ OnlyDate

SpecDate == InitDate /\ [][NextDate]_vars

\* ---- claims about get_publication_date ----
HasYmd(s) == \E i \in DOMAIN s : YmdAt(s, i)

HasYear(s) == \E i \in DOMAIN s : YearAt(s, i)

\* C9: the full calendar date when the citation fragment contains a
\* "year month day" match, otherwise January 1st of the year when it contains a
\* bare 4-digit year, and absent exactly when the fragment is missing or
\* neither pattern matches.
C9_PublicationDate ==
    ppc = "done" =>
        /\ (cit.present /\ HasYmd(cit.text)) =>
               (pub_date # NoneDate /\ pub_date = StrptimeYbd(CitMatch(cit.text)))
        /\ (cit.present /\ ~HasYmd(cit.text) /\ HasYear(cit.text)) =>
               pub_date = Date(NumVal(CitMatch(cit.text)), 1, 1)
        /\ pub_date = NoneDate <=>
               (~cit.present \/ (~HasYmd(cit.text) /\ ~HasYear(cit.text)))

\* the three scenario texts behave as the spec's scenario says
C9_Scenarios ==
    /\ GetPublicationDate([present |-> TRUE,
           text |-> <<"2", "0", "2", "1", " ", "J", "a", "n", " ", "5">>]) = Date(2021, 1, 5)
    /\ GetPublicationDate([present |-> TRUE, text |-> <<"2", "0", "1", "9">>]) = Date(2019, 1, 1)
    /\ GetPublicationDate([present |-> TRUE,
           text |-> <<"n", "o", " ", "d", "a", "t", "e", " ", "h", "e", "r", "e">>]) = NoneDate

\* ---- specification: one call of process_pubmed_ids ----
Id7 == <<"7">>
Id12 == <<"1", "2">>
Id3 == <<"3">>

\* identifier lists a harvested record may carry
MetaIdLists == {<<>>, <<Id7>>, <<Id12, Id7, Id12>>, <<Id3, Id12>>}

MetaEntry(i, ids) == [idx |-> i, accession |-> AccCodes[i], Pubmed_ID |-> JoinIds(ids)]

Metadatas ==
    UNION {{[i \in 1..n |-> MetaEntry(i, f[i])] : f \in [1..n -> MetaIdLists]} : n \in 0..MaxMeta}

InitDet ==
    /\ DiscIdle /\ HarvIdle /\ DateIdle /\ FiltIdle /\ SessIdle
    /\ metadata \in Metadatas
    /\ pubmed_ids = SortedIds(CollectIds(metadata))
    /\ ei = 0 /\ erows = <<>> /\ fetched = <<>> /\ nct_df = NoFrame /\ epc = "loop"

OnlyDet == UNCHANGED <<discVars, harvVars, dateVars, filtVars, sessVars>>

NextDet ==
    \/ ProcStep /\ OnlyDet
    \/ ProcReturn /\ OnlyDet

SpecDet == InitDet /\ [][NextDet]_vars

\* ---- claims about the detail extractor ----
KnownIds == {Id7, Id12, Id3}

KnownIdLists == UNION {[1..n -> KnownIds] : n \in 0..3}

\* the identifiers found across the CrossRefRecords: id is an item of a list
\* whose ', '-joined text is some record's Pubmed_ID
BibIDSet ==
    {id \in KnownIds : \E k \in DOMAIN metadata : \E l \in KnownIdLists :
        JoinIds(l) = metadata[k].Pubmed_ID /\ id \in Range(l)}

\* C3: the detail extractor returns exactly one record per distinct
\* identifier of the CrossRefRecords, whatever the fetch outcomes; an
\* identifier whose page fetch failed gets the sentinel trial id and no date,
\* and the identifiers after it are still processed.
C3_OneRecordPerId ==
    epc = "returned" =>
        /\ Len(nct_df.rows) = Cardinality(BibIDSet)
        /\ {nct_df.rows[k].Pubmed_ID : k \in DOMAIN nct_df.rows} = BibIDSet
        /\ \A j, k \in DOMAIN nct_df.rows :
               nct_df.rows[j].Pubmed_ID = nct_df.rows[k].Pubmed_ID => j = k
        /\ \A k \in DOMAIN nct_df.rows :
               fetched[k] = "None" =>
                   /\ nct_df.rows[k].NCT_Number = NctNotFound
                   /\ nct_df.rows[k].Publication_Date = NoneDate

\* the first of three identifiers failed and the later ones were extracted
C3_Witness ==
    /\ epc = "returned" /\ Len(nct_df.rows) = 3
    /\ fetched[1] = "None" /\ fetched[2] = "page" /\ fetched[3] = "page"
    /\ nct_df.rows[2].NCT_Number # NctNotFound

\* ---- specification: one call of filter_nct ----
D1 == Date(2022, 1, 1)
D2 == Date(2022, 3, 1)
D3 == Date(2022, 12, 31)

FilterDates == {D1, D2, D3}

TrialIds == {Nct8, <<"N", "C", "T", "1", "2", "3">>, NctNotFound, Nct8 \o <<"x">>}

RowIds == <<Id7, Id12, Id3, <<"4">>>>

InputRows(n) ==
    {[k \in 1..n |-> [Pubmed_ID |-> RowIds[k], NCT_Number |-> f[k][1],
                      Publication_Date |-> f[k][2]]] :
        f \in [1..n -> TrialIds \X (FilterDates \cup {NoneDate})]}

InputFrames ==
    UNION {{MakeFrame(rows, [k \in DOMAIN rows |-> rows[k].Pubmed_ID]) : rows \in InputRows(n)} :
           n \in 0..MaxRows}

InitFilt ==
    /\ DiscIdle /\ HarvIdle /\ DateIdle /\ SessIdle
    /\ metadata = <<>> /\ pubmed_ids = <<>> /\ ei = 0 /\ erows = <<>>
    /\ fetched = <<>> /\ epc = "idle"
    /\ nct_df \in InputFrames
    /\ df_before = nct_df
    /\ f_start \in FilterDates /\ f_end \in FilterDates
    /\ filtered_df = NoFrame /\ fpc = "call"

OnlyFilt == UNCHANGED <<discVars, harvVars, dateVars, sessVars, metadata, pubmed_ids, ei, erows, fetched, epc>>

NextFilt ==
    \/ FilterRaises /\ OnlyFilt
    \/ FilterCall /\ OnlyFilt

SpecFilt == InitFilt /\ [][NextFilt]_vars

\* ---- claims about the filter ----
\* the fixed prefix followed by exactly 8 digits
IsTrialId(s) ==
    Len(s) = 11 /\ s[1] = "N" /\ s[2] = "C" /\ s[3] = "T" /\ AllDigits(s, 4, 11)

InContract(r) ==
    /\ r.Publication_Date.k = "date"
    /\ DateLE(f_start, r.Publication_Date)
    /\ DateLE(r.Publication_Date, f_end)
    /\ IsTrialId(r.NCT_Number)

C4_SubsetAndExclusions ==
    fpc = "done" =>
        \A k \in DOMAIN filtered_df.rows :
            /\ filtered_df.rows[k] \in Range(df_before.rows)
            /\ filtered_df.rows[k].Publication_Date.k = "date"
            /\ filtered_df.rows[k].NCT_Number # NctNotFound

\* C5: a call of filter_nct leaves its input frame unchanged.
C5_InputUnchanged == fpc \in {"done", "raised"} => nct_df = df_before

\* ---- specification: a session of "Run Search" clicks ----
Keywords == {"", "cancer", "asthma"}

SessRanges == {<<Date(2019, 1, 1), Date(2020, 6, 30)>>, <<Date(2019, 1, 1), Date(2021, 12, 31)>>}

InitSess == DiscIdle /\ HarvIdle /\ DateIdle /\ DetIdle /\ FiltIdle /\ SessIdle

InSess(others) == UNCHANGED <<dateVars, sessVars>> /\ UNCHANGED others

NextSess ==
    \/ \E kw \in Keywords : \E r \in SessRanges : SessClick(kw, r[1], r[2])
    \/ SessStage1
    \/ SessStage1Done
    \/ SessAbort
    \/ SessStage2
    \/ SessStage2Done
    \/ SessStage3
    \/ SessStage3Done
    \/ SessStage4
    \/ SessStage4Done
    \/ SessShow
    \/ DiscSearchFails /\ InSess(<<harvVars, detVars, filtVars>>)
    \/ DiscSearch /\ InSess(<<harvVars, detVars, filtVars>>)
    \/ DiscFetchFails /\ InSess(<<harvVars, detVars, filtVars>>)
    \/ DiscFetch /\ InSess(<<harvVars, detVars, filtVars>>)
    \/ HarvStart /\ InSess(<<discVars, detVars, filtVars>>)
    \/ HarvFinish /\ InSess(<<discVars, detVars, filtVars>>)
    \/ HarvYield /\ InSess(<<discVars, detVars, filtVars>>)
    \/ HarvYieldRaises /\ InSess(<<discVars, detVars, filtVars>>)
    \/ HarvLoopEnds /\ InSess(<<discVars, detVars, filtVars>>)
    \/ HarvExit /\ InSess(<<discVars, detVars, filtVars>>)
    \/ ProcStep /\ InSess(<<discVars, harvVars, filtVars>>)
    \/ ProcReturn /\ InSess(<<discVars, harvVars, filtVars>>)
    \/ FilterRaises /\ InSess(<<discVars, harvVars, metadata, pubmed_ids, ei, erows, fetched, epc>>)
    \/ FilterCall /\ InSess(<<discVars, harvVars, metadata, pubmed_ids, ei, erows, fetched, epc>>)

SpecSess == InitSess /\ [][NextSess]_vars

\* ---- claims about the handler ----
FailedCalls == {i \in DOMAIN calls : calls[i].result \in {"fail", "fetchfail"}}

\* C6: when a search call or a record-fetch call of the discovery loop fails,
\* fetch_all_geo_accessions returns no accession set: the failure propagates,
\* no later page is requested, and no later stage runs in that run.
C6_DiscoveryFailureIsFatal ==
    FailedCalls # {} =>
        /\ dpc = "raised"
        /\ FailedCalls = {Len(calls)}
        /\ "accessions" \notin ss_keys
        /\ stages = {"discover"}
        /\ pc \in {"discover", "idle"}

\* the second page's record fetch failed and the run was aborted
C6_Witness ==
    /\ Len(calls) = 2 /\ calls[2].result = "fetchfail" /\ all_accessions # {}
    /\ run_end = "aborted" /\ pc = "idle"

\* C10: the filtered records a run shows were computed from that run's keyword
\* and that run's [start, end] range, in the first run and in every later one.
C10_RunShowsItsOwnResults ==
    (pc = "idle" /\ run_end = "shown") =>
        shown.computed_for = [kw |-> keyword, start |-> start_date, end |-> end_date]

====
